---- MODULE Spec2Model ----
(***************************************************************************)
(* Model of src/app.py: a Streamlit chat front-end over a retrieval-       *)
(* augmented generation pipeline (Azure AI Search + Azure OpenAI).         *)
(*                                                                         *)
(* Strings are sequences of symbols, so that concatenation (+, +=) is      *)
(* sequence concatenation.  A Python value that may be None is a record    *)
(* [none, val].                                                            *)
(***************************************************************************)
EXTENDS Integers, Sequences, FiniteSets, TLC

VARIABLES
    environ,          \* os.environ after load_dotenv(): names set -> text
    pc,               \* position of the script: start, stopped, idle, search, create, stream, rerun
    search_client,    \* module-level search_client ("None" or "client")
    openai_client,    \* module-level openai_client ("None" or "client")
    error,            \* third value returned by initialize_azure_clients
    messages,         \* st.session_state.messages
    latest_sources,   \* st.session_state.latest_sources
    message_count,    \* st.session_state.message_count
    prompt,           \* the handler's local prompt
    results,          \* what the search backend returned to this request
    context,          \* the handler's local context
    sources,          \* the handler's local sources
    full_response,    \* the handler's local full_response
    received,         \* chunks the completion backend delivered to this request
    yielded,          \* deltas stream_llm_response yielded in this request
    genError,         \* the exception the completion backend raised in this request
    searchCalls,      \* search_client.search calls made by this request
    completionCalls   \* chat.completions.create calls made by this request

vars == <<environ, pc, search_client, openai_client, error, messages,
          latest_sources, message_count, prompt, results, context, sources,
          full_response, received, yielded, genError, searchCalls,
          completionCalls>>

session == <<messages, latest_sources, message_count>>
clients == <<environ, search_client, openai_client, error>>
locals  == <<prompt, results, context, sources, full_response>>
stream  == <<received, yielded, genError>>
calls   == <<searchCalls, completionCalls>>

----------------------------------------------------------------------------
(* Bounds *)

MaxRounds  == 2     \* user messages a transcript may hold
MaxRecords == 2     \* records one search call returns
MaxChunks  == 3     \* chunks one completion stream delivers

----------------------------------------------------------------------------
(* Python values *)

None == [none |-> TRUE, val |-> <<>>]
Some(v) == [none |-> FALSE, val |-> v]

\* bool(x) of an optional string or list: None and the empty value are falsy
Truthy(x) == ~x.none /\ x.val # <<>>

\* dict.get(key, default)
Get(d, key, default) == IF key \in DOMAIN d THEN d[key] ELSE default

\* "".join(seq)
RECURSIVE Concat(_)
Concat(seq) == IF seq = <<>> THEN <<>> ELSE Head(seq) \o Concat(Tail(seq))

\* sequences over S of length at most n
SeqUpTo(S, n) == UNION {[1..k -> S] : k \in 0..n}

----------------------------------------------------------------------------
(* Configuration: initialize_azure_clients and the module-level check *)

RequiredVars == <<"AZURE_SEARCH_ENDPOINT", "AZURE_SEARCH_KEY", "AZURE_SEARCH_INDEX",
                  "AZURE_OPENAI_ENDPOINT", "AZURE_OPENAI_KEY",
                  "AZURE_OPENAI_CHAT_DEPLOYMENT">>

VarNames == {RequiredVars[i] : i \in 1..Len(RequiredVars)}

\* the environments: each name unset, set to the empty text, or set
Environments == UNION {[D -> {<<>>, <<"v">>}] : D \in SUBSET VarNames}

FullEnvironment == [n \in VarNames |-> <<"v">>]

\* os.getenv(name)
getenv(env, name) == IF name \in DOMAIN env THEN Some(env[name]) ELSE None

\* the chain of "if not value: missing_vars.append(name)"
RECURSIVE MissingFrom(_, _)
MissingFrom(env, names) ==
    IF names = <<>> THEN <<>>
    ELSE (IF ~Truthy(getenv(env, Head(names))) THEN <<Head(names)>> ELSE <<>>)
         \o MissingFrom(env, Tail(names))

\* variant: the check returns at the first missing name
missing_vars_first_only(env) ==
    IF MissingFrom(env, RequiredVars) = <<>> THEN <<>>
    ELSE <<Head(MissingFrom(env, RequiredVars))>>

missing_vars(env) == MissingFrom(env, RequiredVars)

\* texts of the exceptions a backend or a client constructor raises
ExcTexts == {<<"boom">>}

NoError   == [kind |-> "none", val |-> <<>>]
ErrList(l) == [kind |-> "list", val |-> l]
ErrStr(s)  == [kind |-> "str", val |-> s]

\* initialize_azure_clients(): raised = the text of the exception a client
\* constructor raises, None when construction succeeds
initialize_azure_clients(env, raised) ==
    IF missing_vars(env) # <<>>
    THEN [search |-> "None", openai |-> "None", error |-> ErrList(missing_vars(env))]
    ELSE IF ~raised.none
    THEN [search |-> "None", openai |-> "None", error |-> ErrStr(raised.val)]
    ELSE [search |-> "client", openai |-> "client", error |-> NoError]

\* "if error:" at module level
ErrorTruthy(e) == e.kind # "none" /\ e.val # <<>>

----------------------------------------------------------------------------
(* Fixed texts *)

Welcome     == <<"Welcome!">>
WelcomeBack == <<"Welcome back!">>
RetrievalErrorReply == <<"I'm having trouble accessing the document database.">>
InsufficientAnswer ==
    <<"I don't have sufficient information in the provided documents to answer that question.">>
Separator == <<"\n\n">>

\* f"Error generating response: {e}"
ErrorDelta(e) == <<"Error generating response:">> \o e

Msg(role, content) == [role |-> role, content |-> content]

----------------------------------------------------------------------------
(* Retrieval: retrieve_documents *)

Fields == {"title", "chunk", "document_title", "author", "topic", "@search.score"}

Full(chunk, title) ==
    [f \in Fields |->
        CASE f = "chunk" -> chunk
          [] f = "title" -> title
          [] f = "document_title" -> "D"
          [] f = "author" -> "A"
          [] f = "topic" -> "P"
          [] OTHER -> 1]

Without(r, f) == [g \in DOMAIN r \ {f} |-> r[g]]

\* records of the single-request specification: two complete ones and one
\* per absent field
Pool == {Full(<<"x">>, "T1"), Full(<<"y">>, "T2")}
        \cup {Without(Full(<<"x">>, "T1"), f) : f \in Fields}

\* records of the session specification
SessionPool == {Full(<<"x">>, "T1"), Without(Full(<<"y">>, "T2"), "author")}

\* what a search call does: it delivers records, then either ends or raises
SearchOutcomes(pool) ==
    [records : SeqUpTo(pool, MaxRecords), raises : BOOLEAN]

\* the dict appended to sources for one result
SourceOf(result) ==
    [title          |-> Get(result, "title", "N/A"),
     document_title |-> Get(result, "document_title", "N/A"),
     author         |-> Get(result, "author", "N/A"),
     topic          |-> Get(result, "topic", "N/A"),
     relevance_score |-> Get(result, "@search.score", 0)]

\* variant: the chunk goes in front of the context built so far
AppendChunk_prepends(retrieved_context, result) ==
    result["chunk"] \o Separator \o retrieved_context

\* line 303: retrieved_context += result['chunk'] + "\n\n"
AppendChunk(retrieved_context, result) ==
    retrieved_context \o result["chunk"] \o Separator

\* the for loop over results; result['chunk'] raises KeyError when absent
RECURSIVE RetrieveLoop(_, _, _)
RetrieveLoop(rs, retrieved_context, srcs) ==
    IF rs = <<>>
    THEN [raised |-> FALSE, context |-> retrieved_context, sources |-> srcs]
    ELSE IF "chunk" \notin DOMAIN Head(rs)
    THEN [raised |-> TRUE, context |-> retrieved_context, sources |-> srcs]
    ELSE RetrieveLoop(Tail(rs),
                      AppendChunk(retrieved_context, Head(rs)),
                      Append(srcs, SourceOf(Head(rs))))

\* variant: an exception ends the loop and what was read so far is returned
retrieve_documents_swallows(outcome) ==
    LET loop == RetrieveLoop(outcome.records, <<>>, <<>>) IN
    [context |-> Some(loop.context), sources |-> Some(loop.sources)]

\* retrieve_documents(question) when the search call behaves as outcome:
\* any exception inside the try gives (None, None)
retrieve_documents(outcome) ==
    LET loop == RetrieveLoop(outcome.records, <<>>, <<>>) IN
    IF loop.raised \/ outcome.raises
    THEN [context |-> None, sources |-> None]
    ELSE [context |-> Some(loop.context), sources |-> Some(loop.sources)]

----------------------------------------------------------------------------
(* Generation: stream_llm_response *)

Chunk(hasChoices, content) == [choices |-> hasChoices, content |-> content]

\* chunks of the single-request specification: one without choices, one with
\* empty (or None) content, two with text
Chunks == {Chunk(FALSE, <<>>), Chunk(TRUE, <<>>), Chunk(TRUE, <<"a">>), Chunk(TRUE, <<"b">>)}

\* chunks of the session specification
SessionChunks == {Chunk(TRUE, <<"a">>)}

\* "if chunk.choices and chunk.choices[0].delta.content:"
HasContent(chunk) == chunk.choices /\ chunk.content # <<>>

\* variant: the content is yielded without the check that it is non-empty
DeltasOf_unchecked(chunk) == IF chunk.choices THEN <<chunk.content>> ELSE <<>>

\* the deltas one received chunk makes the generator yield
DeltasOf(chunk) == IF HasContent(chunk) THEN <<chunk.content>> ELSE <<>>

----------------------------------------------------------------------------
(* Initial states *)

FreshLocals ==
    /\ prompt = None
    /\ results = [records |-> <<>>, raises |-> FALSE]
    /\ context = None
    /\ sources = None
    /\ full_response = <<>>
    /\ received = <<>>
    /\ yielded = <<>>
    /\ genError = None
    /\ searchCalls = 0
    /\ completionCalls = 0

Init ==
    /\ environ \in Environments
    /\ pc = "start"
    /\ search_client = "None"
    /\ openai_client = "None"
    /\ error = NoError
    /\ messages = <<>>
    /\ latest_sources = <<>>
    /\ message_count = 0
    /\ FreshLocals

----------------------------------------------------------------------------
(* Actions *)

\* module level, lines 254-274 and 362-370: initialise the clients, stop on
\* an error, otherwise initialise the session state
Start ==
    /\ pc = "start"
    /\ \E raised \in {None} \cup {Some(e) : e \in ExcTexts} :
         LET r == initialize_azure_clients(environ, raised) IN
         /\ search_client' = r.search
         /\ openai_client' = r.openai
         /\ error' = r.error
         /\ IF ErrorTruthy(r.error)
            THEN /\ pc' = "stopped"
                 /\ messages' = messages
            ELSE /\ pc' = "idle"
                 /\ messages' = <<Msg("assistant", Welcome)>>
    /\ UNCHANGED <<environ, latest_sources, message_count, locals, stream, calls>>

\* "if prompt := st.chat_input(...)": record the user's message
Submit(prompts) ==
    /\ pc = "idle"
    /\ message_count < MaxRounds
    /\ \E p \in prompts :
         /\ p # <<>>
         /\ prompt' = Some(p)
         /\ messages' = Append(messages, Msg("user", p))
    /\ message_count' = message_count + 1
    /\ pc' = "search"
    /\ UNCHANGED <<clients, latest_sources, results, context, sources,
                   full_response, stream, calls>>

\* line 435: "sources if sources else []"
SourcesOrEmpty(srcs) == IF Truthy(srcs) THEN srcs.val ELSE <<>>

\* lines 434-445: retrieve_documents(prompt), latest_sources, the failure reply
Search(pool) ==
    /\ pc = "search"
    /\ \E outcome \in SearchOutcomes(pool) :
         LET r == retrieve_documents(outcome) IN
         /\ results' = outcome
         /\ context' = r.context
         /\ sources' = r.sources
         /\ latest_sources' = SourcesOrEmpty(r.sources)
         /\ IF r.context.none
            THEN /\ messages' = Append(messages, Msg("assistant", RetrievalErrorReply))
                 /\ pc' = "rerun"
            ELSE /\ messages' = messages
                 /\ pc' = "create"
    /\ searchCalls' = searchCalls + 1
    /\ full_response' = <<>>
    /\ UNCHANGED <<clients, message_count, prompt, stream, completionCalls>>

\* variant: the except clause yields nothing
Fail_silent(e) ==
    /\ genError' = Some(e)
    /\ yielded' = yielded
    /\ full_response' = full_response
    /\ messages' = Append(messages, Msg("assistant", full_response))
    /\ pc' = "rerun"

\* variant: no except clause; the exception ends the script run
Fail_escapes(e) ==
    /\ genError' = Some(e)
    /\ yielded' = yielded
    /\ full_response' = full_response
    /\ messages' = messages
    /\ pc' = "idle"

\* the generator fails with exception text e: it yields the error delta, the
\* consumer appends it, the loop ends and the reply is recorded (line 461)
Fail(e) ==
    /\ genError' = Some(e)
    /\ yielded' = Append(yielded, ErrorDelta(e))
    /\ full_response' = full_response \o ErrorDelta(e)
    /\ messages' = Append(messages, Msg("assistant", full_response \o ErrorDelta(e)))
    /\ pc' = "rerun"

\* lines 343-352: openai_client.chat.completions.create succeeds
Create ==
    /\ pc = "create"
    /\ completionCalls' = completionCalls + 1
    /\ pc' = "stream"
    /\ UNCHANGED <<clients, session, locals, stream, searchCalls>>

\* lines 343-352, 356-357: openai_client.chat.completions.create raises
CreateFails ==
    /\ pc = "create"
    /\ completionCalls' = completionCalls + 1
    /\ \E e \in ExcTexts : Fail(e)
    /\ UNCHANGED <<clients, latest_sources, message_count, prompt, results,
                   context, sources, received, searchCalls>>

\* lines 353-355 and 453-455: the backend delivers one chunk
StreamChunk(chunks) ==
    /\ pc = "stream"
    /\ Len(received) < MaxChunks
    /\ \E chunk \in chunks :
         /\ received' = Append(received, chunk)
         /\ yielded' = yielded \o DeltasOf(chunk)
         /\ full_response' = full_response \o Concat(DeltasOf(chunk))
    /\ UNCHANGED <<clients, session, pc, prompt, results, context, sources,
                   genError, calls>>

\* lines 353, 356-357: iterating the stream raises
StreamFails ==
    /\ pc = "stream"
    /\ \E e \in ExcTexts : Fail(e)
    /\ UNCHANGED <<clients, latest_sources, message_count, prompt, results,
                   context, sources, received, calls>>

\* lines 353, 457-461: the backend stream ends; the reply is recorded
StreamEnds ==
    /\ pc = "stream"
    /\ messages' = Append(messages, Msg("assistant", full_response))
    /\ pc' = "rerun"
    /\ UNCHANGED <<clients, latest_sources, message_count, locals, stream, calls>>

\* line 463: st.rerun() starts a new script run; the locals are gone
Rerun ==
    /\ pc = "rerun"
    /\ pc' = "idle"
    /\ prompt' = None
    /\ results' = [records |-> <<>>, raises |-> FALSE]
    /\ context' = None
    /\ sources' = None
    /\ full_response' = <<>>
    /\ received' = <<>>
    /\ yielded' = <<>>
    /\ genError' = None
    /\ searchCalls' = 0
    /\ completionCalls' = 0
    /\ UNCHANGED <<clients, session>>

\* variant: the button does not reset message_count
Clear_keeps_count ==
    /\ pc = "idle"
    /\ messages' = <<Msg("assistant", WelcomeBack)>>
    /\ latest_sources' = <<>>
    /\ UNCHANGED <<clients, pc, message_count, locals, stream, calls>>

\* lines 477-484: the Clear Conversation button
Clear ==
    /\ pc = "idle"
    /\ messages' = <<Msg("assistant", WelcomeBack)>>
    /\ latest_sources' = <<>>
    /\ message_count' = 0
    /\ UNCHANGED <<clients, pc, locals, stream, calls>>

----------------------------------------------------------------------------
(* Specifications *)

SessionPrompts == {<<>>, <<"q">>}
RequestPrompts == {<<>>, <<" ">>, <<"q">>, <<" ", "q", " ">>}

Next ==
    \/ Start
    \/ Submit(SessionPrompts)
    \/ Search(SessionPool)
    \/ Create
    \/ CreateFails
    \/ StreamChunk(SessionChunks)
    \/ StreamFails
    \/ StreamEnds
    \/ Rerun
    \/ Clear

Spec == Init /\ [][Next]_vars

\* the steps of one request: the handler is sequential code that runs on
Handler ==
    \/ Search(SessionPool)
    \/ Create
    \/ CreateFails
    \/ StreamChunk(SessionChunks)
    \/ StreamFails
    \/ StreamEnds
    \/ Rerun

FairSpec == Spec /\ WF_vars(Handler)

\* one request of a freshly started session, over the larger input sets
InitRequest ==
    /\ environ = FullEnvironment
    /\ pc = "idle"
    /\ search_client = "client"
    /\ openai_client = "client"
    /\ error = NoError
    /\ messages = <<Msg("assistant", Welcome)>>
    /\ latest_sources = <<>>
    /\ message_count = 0
    /\ FreshLocals

NextRequest ==
    \/ Submit(RequestPrompts)
    \/ Search(Pool)
    \/ Create
    \/ CreateFails
    \/ StreamChunk(Chunks)
    \/ StreamFails
    \/ StreamEnds

RequestSpec == InitRequest /\ [][NextRequest]_vars

----------------------------------------------------------------------------
(* Vocabulary of the properties *)

Last(seq) == seq[Len(seq)]

\* a query trimmed of leading and trailing whitespace, over the whitespace symbol " "
RECURSIVE LStrip(_)
LStrip(s) == IF s # <<>> /\ Head(s) = " " THEN LStrip(Tail(s)) ELSE s

RECURSIVE RStrip(_)
RStrip(s) ==
    IF s # <<>> /\ s[Len(s)] = " " THEN RStrip(SubSeq(s, 1, Len(s) - 1)) ELSE s

Strip(s) == RStrip(LStrip(s))

\* the request has made its search call
Searched == pc \in {"create", "stream", "rerun"}

\* the search call succeeded: it raised nothing while its records were read
SearchSucceeded == Searched /\ ~results.raises

\* a field of a record, or the sentinel when the record lacks it
FieldOr(record, f, sentinel) ==
    IF f \in DOMAIN record THEN record[f] ELSE sentinel

\* the source a record is to be normalised to
ExpectedSource(record) ==
    [title           |-> FieldOr(record, "title", "N/A"),
     document_title  |-> FieldOr(record, "document_title", "N/A"),
     author          |-> FieldOr(record, "author", "N/A"),
     topic           |-> FieldOr(record, "topic", "N/A"),
     relevance_score |-> FieldOr(record, "@search.score", 0)]

ExpectedSources(records) == [i \in 1..Len(records) |-> ExpectedSource(records[i])]

\* sep.join(parts)
RECURSIVE Join(_, _)
Join(parts, sep) ==
    IF parts = <<>> THEN <<>>
    ELSE IF Len(parts) = 1 THEN Head(parts)
    ELSE Head(parts) \o sep \o Join(Tail(parts), sep)

\* every part followed by sep
RECURSIVE Terminated(_, _)
Terminated(parts, sep) ==
    IF parts = <<>> THEN <<>> ELSE Head(parts) \o sep \o Terminated(Tail(parts), sep)

ChunksOf(records) == [i \in 1..Len(records) |-> records[i]["chunk"]]

\* the non-empty content fragments among the chunks received, in arrival order
RECURSIVE Fragments(_)
Fragments(chunks) ==
    IF chunks = <<>> THEN <<>>
    ELSE (IF Head(chunks).choices /\ Len(Head(chunks).content) > 0
          THEN <<Head(chunks).content>> ELSE <<>>) \o Fragments(Tail(chunks))

\* the text of the error delta for exception text e
ErrorText(e) == <<"Error generating response:">> \o e

UserMessages == {i \in 1..Len(messages) : messages[i].role = "user"}

----------------------------------------------------------------------------
(* C1: when the search call succeeds with zero records, the completion      *)
(* backend is never invoked, and the request ends with the fixed            *)
(* insufficient-information answer and an empty source list.                *)

C1_EmptyRetrievalShortCircuits ==
    (SearchSucceeded /\ results.records = <<>>) =>
        /\ completionCalls = 0
        /\ pc = "rerun"
        /\ Last(messages) = Msg("assistant", InsufficientAnswer)
        /\ latest_sources = <<>>

----------------------------------------------------------------------------
(* C2: when the search call raises, retrieve_documents returns the failure  *)
(* outcome (None, None), which the empty-but-successful search never        *)
(* returns; the request ends with the retrieval error reply and empty       *)
(* sources, and the completion backend is never invoked.                    *)

C2_RetrievalFailureIsAnErrorOutcome ==
    /\ (Searched /\ results.raises) =>
          /\ context.none /\ sources.none
          /\ pc = "rerun"
          /\ Last(messages) = Msg("assistant", RetrievalErrorReply)
          /\ messages[Len(messages) - 1].role = "user"
          /\ latest_sources = <<>>
          /\ completionCalls = 0
          /\ received = <<>> /\ yielded = <<>>
    /\ (SearchSucceeded /\ results.records = <<>>) =>
          ~context.none /\ ~sources.none

C2_Witness ==
    pc = "rerun" /\ results.raises /\ results.records # <<>> /\ Len(messages) > 3

----------------------------------------------------------------------------
(* C3: when retrieval succeeds with N >= 1 records and the completion call  *)
(* fails, at creation or while the stream is iterated, the request still    *)
(* finishes: the stream ends with one final delta carrying the error text,  *)
(* the recorded reply is the deltas so far followed by it, and              *)
(* latest_sources is the retrieval's source list in retrieval order.        *)

C3_GenerationFailureIsSoft ==
    (~genError.none /\ Truthy(sources)) =>
        /\ pc = "rerun"
        /\ yielded = Fragments(received) \o <<ErrorText(genError.val)>>
        /\ Last(messages) =
              Msg("assistant", Concat(Fragments(received)) \o ErrorText(genError.val))
        /\ messages[Len(messages) - 1].role = "user"
        /\ latest_sources = sources.val
        /\ latest_sources = ExpectedSources(results.records)
        /\ latest_sources # <<>>

C3_Witness ==
    /\ pc = "rerun" /\ ~genError.none
    /\ Len(latest_sources) = 2 /\ latest_sources[1] # latest_sources[2]
    /\ Fragments(received) # <<>>

----------------------------------------------------------------------------
(* C4: a query that is empty after trimming whitespace is rejected before   *)
(* any backend call: neither backend is invoked for it.                     *)

C4_BlankQueryRejected ==
    (~prompt.none /\ Strip(prompt.val) = <<>>) =>
        /\ searchCalls = 0
        /\ completionCalls = 0
        /\ pc \notin {"search", "create", "stream"}

----------------------------------------------------------------------------
(* C5: for a successful retrieval of N >= 1 records the context is the      *)
(* records' chunk fields in backend order joined by "\n\n" (as stated);     *)
(* amended: every chunk, in backend order, each followed by "\n\n".         *)

----------------------------------------------------------------------------
(* C6: a field absent from a record of a successful search call never       *)
(* fails the retrieval: retrieve_documents returns success with one source  *)
(* per record, absent fields taking "N/A" (0.0 for the relevance score).    *)

C6_AbsentFieldNeverFails ==
    SearchSucceeded =>
        /\ ~context.none /\ ~sources.none
        /\ sources.val = ExpectedSources(results.records)

----------------------------------------------------------------------------
(* C7: the deltas stream_llm_response yields are exactly the non-empty      *)
(* content fragments received from the backend so far, in arrival order     *)
(* (after a failure: followed by the one error delta); the stream is finite *)
(* and the recorded reply is the concatenation of the yielded deltas.       *)

----------------------------------------------------------------------------
(* C8: every submitted query reaches a terminal response whatever the       *)
(* backends do: while the request runs the transcript ends with the user's  *)
(* message, it ends with exactly one assistant message appended after it,   *)
(* and no backend failure leaves the request without one.                   *)

RequestShape ==
    /\ pc \in {"search", "create", "stream"} =>
          /\ Last(messages) = Msg("user", prompt.val)
          /\ Cardinality(UserMessages) * 2 = Len(messages)
    /\ pc = "rerun" =>
          /\ Last(messages).role = "assistant"
          /\ messages[Len(messages) - 1] = Msg("user", prompt.val)
          /\ Cardinality(UserMessages) * 2 + 1 = Len(messages)

C8_EveryRequestTerminates ==
    /\ []RequestShape
    /\ (pc = "search") ~> (pc = "rerun")
    /\ (pc = "rerun") ~> (pc = "idle")

C8_Witness ==
    pc = "rerun" /\ ~genError.none /\ received # <<>> /\ Len(messages) = 5

----------------------------------------------------------------------------
(* C9: if any required configuration value is absent, initialization        *)
(* reports exactly the absent names and halts; no client is constructed and *)
(* no backend call is made; clients exist only when nothing is missing.     *)

Absent == {n \in VarNames : n \notin DOMAIN environ \/ environ[n] = <<>>}

C9_MissingConfigurationHalts ==
    pc # "start" =>
        /\ Absent # {} =>
              /\ pc = "stopped"
              /\ error.kind = "list"
              /\ {error.val[i] : i \in 1..Len(error.val)} = Absent
              /\ Len(error.val) = Cardinality(Absent)
              /\ search_client = "None" /\ openai_client = "None"
              /\ searchCalls = 0 /\ completionCalls = 0
              /\ messages = <<>>
        /\ (search_client = "client" \/ openai_client = "client") =>
              /\ Absent = {}
              /\ error = NoError

C9_Witness ==
    /\ pc = "stopped" /\ error.kind = "list" /\ Len(error.val) = 2
    /\ \E n \in VarNames : n \in DOMAIN environ /\ environ[n] = <<>>
    /\ \E n \in VarNames : n \notin DOMAIN environ

----------------------------------------------------------------------------
(* C10: between requests the transcript starts with one assistant welcome   *)
(* message, then user and assistant messages alternate, message_count is    *)
(* the number of user messages, and latest_sources holds the sources of the *)
(* most recent request (empty after a clear or a failed retrieval).         *)

SessionShape ==
    /\ Len(messages) >= 1
    /\ messages[1].role = "assistant"
    /\ messages[1].content \in {Welcome, WelcomeBack}
    /\ \A i \in 2..Len(messages) :
          messages[i].role = (IF i % 2 = 0 THEN "user" ELSE "assistant")
    /\ Len(messages) % 2 = 1
    /\ message_count = Cardinality(UserMessages)

\* the sources the request that got results is to leave behind
SourcesOfRequest(outcome) ==
    IF outcome.raises \/ \E i \in 1..Len(outcome.records) :
                            "chunk" \notin DOMAIN outcome.records[i]
    THEN <<>>
    ELSE ExpectedSources(outcome.records)

C10_SessionStateBetweenRequests ==
    [][ /\ pc' = "idle" => SessionShape'
        /\ (pc = "rerun" /\ pc' = "idle") =>
              latest_sources' = SourcesOfRequest(results)
        /\ (pc = "idle" /\ pc' = "idle") =>
              (latest_sources' = <<>> /\ message_count' = 0 /\ Len(messages') = 1)
        /\ (pc = "start" /\ pc' = "idle") => latest_sources' = <<>>
      ]_vars

C10_Witness ==
    pc = "idle" /\ Len(messages) = 5 /\ latest_sources # <<>>

====
